---- MODULE Spec2Model ----
(***************************************************************************)
(* A model of optuna/visualization.py: the three chart builders            *)
(* (_get_intermediate_plot, _get_optimization_history_plot,                *)
(* _get_slice_plot), their three display wrappers, and the plotly          *)
(* availability check.  A study is a read-only snapshot; every call is one *)
(* action that records what the call returned or raised.                   *)
(***************************************************************************)
EXTENDS Integers, Sequences, FiniteSets, TLC

VARIABLES study, available, plotly_version, call, result

vars == <<study, available, plotly_version, call, result>>

(***************************************************************************)
(* Bounds of the model.                                                    *)
(***************************************************************************)
MaxTrials == 3          \* trials of a study handed to the optimization-history build
MaxValue == 2           \* finite objective values 1..MaxValue of those trials
MaxFewTrials == 2       \* trials of a study handed to the other operations
MaxSteps == 2           \* steps of one trial's intermediate_values
MaxRequested == 2       \* length of the params list handed to the slice build

(***************************************************************************)
(* Python values.                                                          *)
(***************************************************************************)
\* A float: inf = 0 for a finite number v, 1 for float('inf'), -1 for -float('inf').
Float(n) == [type |-> "float", inf |-> 0, v |-> n]
PosInf == [type |-> "float", inf |-> 1, v |-> 0]
NegInf == [type |-> "float", inf |-> -1, v |-> 0]
\* None, the value of a trial that has no objective value.
NoneValue == [type |-> "NoneType", inf |-> 0, v |-> 0]

isinstance_float(x) == x.type = "float"

\* a < b on floats
FloatLess(a, b) == \/ a.inf < b.inf
                   \/ a.inf = 0 /\ b.inf = 0 /\ a.v < b.v

\* Python's min(a, b) and max(a, b): the first argument wins a tie.
PyMin(a, b) == IF FloatLess(b, a) THEN b ELSE a
PyMax(a, b) == IF FloatLess(a, b) THEN b ELSE a

Last(s) == s[Len(s)]

(***************************************************************************)
(* optuna.structs                                                          *)
(***************************************************************************)
TrialState == {"RUNNING", "COMPLETE", "PRUNED", "FAIL"}
StudyDirection == {"MINIMIZE", "MAXIMIZE"}

\* Names of parameters are strings; a string is modelled as the sequence of its
\* characters (1 = 'a', 2 = 'b'), so that sorting is Python's lexicographic order.
ParamNames == {<<1, 2>>, <<2>>}
\* A name no trial ever sets.
OtherName == <<1>>

\* Objective values of the optimization-history studies.  NaN is not among them: a
\* study records a trial whose objective returned NaN as FAIL, without a value.
FloatValues == {Float(n) : n \in 1..MaxValue} \cup {PosInf, NegInf}
\* Parameter values, intermediate values and objective values of the other studies.
FewValues == {1, 2}

\* dicts: a function from the keys to the values
Dicts(K, V) == UNION {[S -> V] : S \in SUBSET K}
EmptyDict == [k \in {} |-> 0]

\* intermediate_values keeps its steps in the order they were reported: a sequence
\* of <<step, value>> pairs with increasing steps.
IntermediateDicts ==
    UNION {{[i \in 1..n |-> <<i - 1, f[i]>>] : f \in [1..n -> FewValues]} : n \in 0..MaxSteps}

keys(d) == [i \in 1..Len(d) |-> d[i][1]]
values(d) == [i \in 1..Len(d) |-> d[i][2]]

\* A FrozenTrial without its number.  has_intermediate_values is
\* hasattr(trial, 'intermediate_values').
TrialBodies(states, vals, dicts, hasIV, ivs) ==
    [state : states, value : vals, params : dicts,
     has_intermediate_values : hasIV, intermediate_values : ivs]

\* study.trials: the trials are numbered 0, 1, ... in the order of the sequence.
Numbered(bodies) == [i \in 1..Len(bodies) |-> [number |-> i - 1] @@ bodies[i]]

(***************************************************************************)
(* What a call produced: a figure or an exception.  read records whether   *)
(* the call evaluated study.trials, shown whether figure.show() ran,       *)
(* warning the message handed to logger.warning (NoWarning when none).     *)
(***************************************************************************)
NoResult == [kind |-> "none"]

Warning(fmt, arg) == [fmt |-> fmt, arg |-> arg]
NoWarning == Warning("", <<>>)

Figure(data, layout, xaxes, yaxes, warning) ==
    [kind |-> "figure", data |-> data, layout |-> layout, xaxes |-> xaxes,
     yaxes |-> yaxes, warning |-> warning, read |-> TRUE, shown |-> FALSE]

Raise(exc, msg, read) ==
    [kind |-> "raise", exc |-> exc, msg |-> msg, read |-> read, shown |-> FALSE]

\* The module-level name go is bound only when the import of plotly succeeded.
NameErrorGo == Raise("NameError", [fmt |-> "name 'go' is not defined", arg |-> 0], FALSE)

(***************************************************************************)
(* _check_plotly_availability                                              *)
(***************************************************************************)
MinVersion == <<4, 0, 0>>

\* StrictVersion(a) < StrictVersion(b) on (major, minor, patch)
StrictVersionLess(a, b) ==
    \/ a[1] < b[1]
    \/ a[1] = b[1] /\ a[2] < b[2]
    \/ a[1] = b[1] /\ a[2] = b[2] /\ a[3] < b[3]

NoError == [kind |-> "ok"]

\* Only the presence of plotly is checked, not its version.
check_only_installed(avail, version) ==
    IF ~avail
    THEN Raise("ImportError",
               [fmt |-> "Plotly is not available. Please install plotly to use this feature.",
                arg |-> 0], FALSE)
    ELSE NoError

_check_plotly_availability(avail, version) ==
    IF ~avail
    THEN Raise("ImportError",
               [fmt |-> "Plotly is not available. Please install plotly to use this feature.",
                arg |-> 0], FALSE)
    ELSE IF StrictVersionLess(version, MinVersion)
    THEN Raise("ImportError",
               [fmt |-> "Please install plotly version 4.0.0 or higher.", arg |-> 0], FALSE)
    ELSE NoError

(***************************************************************************)
(* _get_optimization_history_plot                                          *)
(***************************************************************************)
\* No filter on the state.
CompleteTrials_NoFilter(trials) == trials
RECURSIVE CompleteTrials(_)
CompleteTrials(trials) ==
    IF trials = <<>> THEN <<>>
    ELSE IF Head(trials).state = "COMPLETE"
         THEN <<Head(trials)>> \o CompleteTrials(Tail(trials))
         ELSE CompleteTrials(Tail(trials))

HistoryLayout ==
    [title |-> "Optimization History Plot", xaxis |-> "#Trials", yaxis |-> "Objective Value"]

\* The seeds of the two directions exchanged.
HistorySeed_Swapped(direction) == IF direction = "MINIMIZE" THEN <<NegInf>> ELSE <<PosInf>>
HistorySeed(direction) == IF direction = "MINIMIZE" THEN <<PosInf>> ELSE <<NegInf>>

\* The trial's own value appended instead of the best so far.
HistoryStep_NoBest(direction, best_values, trial_value) == Append(best_values, trial_value)
HistoryStep(direction, best_values, trial_value) ==
    IF direction = "MINIMIZE"
    THEN Append(best_values, PyMin(Last(best_values), trial_value))
    ELSE Append(best_values, PyMax(Last(best_values), trial_value))

\* The loop over the COMPLETE trials from the i-th on: it stops at the first trial
\* whose value is no float.
RECURSIVE HistoryLoop(_, _, _, _)
HistoryLoop(direction, trials, i, best_values) ==
    IF i > Len(trials) THEN [raised |-> FALSE, number |-> 0, best_values |-> best_values]
    ELSE IF ~isinstance_float(trials[i].value)
    THEN [raised |-> TRUE, number |-> trials[i].number, best_values |-> best_values]
    ELSE HistoryLoop(direction, trials, i + 1,
                     HistoryStep(direction, best_values, trials[i].value))

_get_optimization_history_plot(avail, s) ==
    IF ~avail THEN NameErrorGo
    ELSE
    LET trials == CompleteTrials(s.trials) IN
    IF Len(trials) = 0
    THEN Figure(<<>>, HistoryLayout, <<>>, <<>>,
                Warning("Study instance does not contain trials.", <<>>))
    ELSE
    LET loop == HistoryLoop(s.direction, trials, 1, HistorySeed(s.direction)) IN
    IF loop.raised
    THEN Raise("ValueError",
               [fmt |-> "Trial{} has COMPLETE state, but its value is non float.",
                arg |-> loop.number], TRUE)
    ELSE
    LET best_values == Tail(loop.best_values)
        numbers == [i \in 1..Len(trials) |-> trials[i].number]
        traces == <<[x |-> numbers, y |-> [i \in 1..Len(trials) |-> trials[i].value],
                     mode |-> "markers", name |-> "Objective Value"],
                    [x |-> numbers, y |-> best_values, name |-> "Best Value"]>>
    IN Figure(traces, HistoryLayout, <<>>, <<>>, NoWarning)

(***************************************************************************)
(* _get_intermediate_plot                                                  *)
(***************************************************************************)
\* Every state is a target state.
IntermediateTargetState_All == {"PRUNED", "COMPLETE", "RUNNING", "FAIL"}
IntermediateTargetState == {"PRUNED", "COMPLETE", "RUNNING"}

RECURSIVE TargetTrials(_)
TargetTrials(trials) ==
    IF trials = <<>> THEN <<>>
    ELSE IF Head(trials).state \in IntermediateTargetState
         THEN <<Head(trials)>> \o TargetTrials(Tail(trials))
         ELSE TargetTrials(Tail(trials))

IntermediateLayout ==
    [title |-> "Intermediate Values Plot", xaxis |-> "Step",
     yaxis |-> "Intermediate Value", showlegend |-> FALSE]

\* 'Trial{}'.format(trial.number)
TrialName(number) == [fmt |-> "Trial{}", arg |-> number]

IntermediateTrace(trial) ==
    [x |-> keys(trial.intermediate_values), y |-> values(trial.intermediate_values),
     mode |-> "lines+markers", maxdisplayed |-> 10, name |-> TrialName(trial.number)]

\* The loop over the filtered trials from the i-th on: reading intermediate_values
\* of a trial that has no such attribute raises AttributeError.
RECURSIVE IntermediateLoop(_, _, _)
IntermediateLoop(trials, i, traces) ==
    IF i > Len(trials) THEN [raised |-> FALSE, traces |-> traces]
    ELSE IF ~trials[i].has_intermediate_values
    THEN [raised |-> TRUE, traces |-> traces]
    ELSE IntermediateLoop(trials, i + 1, Append(traces, IntermediateTrace(trials[i])))

\* The attribute is taken to be there.
FirstHasIntermediateValues_Assumed(trials) == TRUE
FirstHasIntermediateValues(trials) == trials[1].has_intermediate_values

_get_intermediate_plot(avail, s) ==
    IF ~avail THEN NameErrorGo
    ELSE
    LET trials == TargetTrials(s.trials) IN
    IF Len(trials) = 0
    THEN Figure(<<>>, IntermediateLayout, <<>>, <<>>,
                Warning("Study instance does not contain trials.", <<>>))
    ELSE IF ~FirstHasIntermediateValues(trials)
    THEN Figure(<<>>, IntermediateLayout, <<>>, <<>>,
                Warning("You need to set up the pruning feature to utilize plot_intermediate_values()",
                        <<>>))
    ELSE
    LET loop == IntermediateLoop(trials, 1, <<>>) IN
    IF loop.raised
    THEN Raise("AttributeError",
               [fmt |-> "object has no attribute 'intermediate_values'", arg |-> 0], TRUE)
    ELSE Figure(loop.traces, IntermediateLayout, <<>>, <<>>, NoWarning)

(***************************************************************************)
(* _get_slice_plot and _generate_slice_subplot                             *)
(***************************************************************************)
SliceLayout == [title |-> "Slice Plot"]

\* a < b on strings (sequences of characters)
RECURSIVE StrLess(_, _)
StrLess(a, b) ==
    IF b = <<>> THEN FALSE
    ELSE IF a = <<>> THEN TRUE
    ELSE IF Head(a) # Head(b) THEN Head(a) < Head(b)
    ELSE StrLess(Tail(a), Tail(b))

\* Shorter strings first.
RECURSIVE sorted_ByLength(_)
sorted_ByLength(S) ==
    IF S = {} THEN <<>>
    ELSE LET m == CHOOSE x \in S :
                      \A y \in S : x = y \/ Len(x) < Len(y) \/ (Len(x) = Len(y) /\ StrLess(x, y))
         IN <<m>> \o sorted_ByLength(S \ {m})

\* sorted(list(S)) for a set S of strings
RECURSIVE sorted(_)
sorted(S) ==
    IF S = {} THEN <<>>
    ELSE LET m == CHOOSE x \in S : \A y \in S : x = y \/ StrLess(x, y)
         IN <<m>> \o sorted(S \ {m})

\* set(params) for a list
set(l) == {l[i] : i \in 1..Len(l)}

\* {p_name for t in trials for p_name in t.params.keys()}
AllParams(trials) == UNION {DOMAIN trials[i].params : i \in 1..Len(trials)}

\* [t for t in trials if param in t.params]
RECURSIVE TrialsWithParam(_, _)
TrialsWithParam(trials, param) ==
    IF trials = <<>> THEN <<>>
    ELSE IF param \in DOMAIN Head(trials).params
         THEN <<Head(trials)>> \o TrialsWithParam(Tail(trials), param)
         ELSE TrialsWithParam(Tail(trials), param)

\* y is taken from every trial, not only from those that set the parameter.
slice_subplot_unfiltered_y(trials, param) ==
    LET ts == TrialsWithParam(trials, param) IN
    [x |-> [i \in 1..Len(ts) |-> ts[i].params[param]],
     y |-> [i \in 1..Len(trials) |-> trials[i].value],
     mode |-> "markers",
     color |-> [i \in 1..Len(ts) |-> ts[i].number],
     colorscale |-> "Blues", colorbar |-> "#Trials",
     showscale |-> TRUE, showlegend |-> FALSE, col |-> 1]

\* The colour scale of a marker that has a colorbar is shown unless showscale says
\* otherwise ("showscale's default is True"); col is the panel the trace is put in.
_generate_slice_subplot(trials, param) ==
    LET ts == TrialsWithParam(trials, param) IN
    [x |-> [i \in 1..Len(ts) |-> ts[i].params[param]],
     y |-> [i \in 1..Len(ts) |-> ts[i].value],
     mode |-> "markers",
     color |-> [i \in 1..Len(ts) |-> ts[i].number],
     colorscale |-> "Blues", colorbar |-> "#Trials",
     showscale |-> TRUE, showlegend |-> FALSE, col |-> 1]

\* The first requested name that is not in all_params, as the loop finds it; <<>> when
\* every requested name is known.
\* Only the first requested name is looked up.
FirstUnknown_HeadOnly(params, all_params) ==
    IF params # <<>> /\ Head(params) \notin all_params THEN <<Head(params)>> ELSE <<>>

RECURSIVE FirstUnknown(_, _)
FirstUnknown(params, all_params) ==
    IF params = <<>> THEN <<>>
    ELSE IF Head(params) \notin all_params THEN <<Head(params)>>
    ELSE FirstUnknown(Tail(params), all_params)

SelectedParams(params, all_params) ==
    IF Len(params) = 0 THEN sorted(all_params) ELSE sorted(set(params))

\* The loop over enumerate(sorted_params): showscale is True for the first trace only.
SlicePanels(trials, sorted_params) ==
    [i \in 1..Len(sorted_params) |->
        [_generate_slice_subplot(trials, sorted_params[i])
            EXCEPT !.showscale = (i = 1), !.col = i]]

SliceYAxes(sorted_params) ==
    [i \in 1..Len(sorted_params) |-> IF i = 1 THEN "Objective Value" ELSE ""]

_get_slice_plot(avail, s, params) ==
    IF ~avail THEN NameErrorGo
    ELSE
    LET trials == CompleteTrials(s.trials) IN
    IF Len(trials) = 0
    THEN Figure(<<>>, SliceLayout, <<>>, <<>>,
                Warning("Your study does not have any completed trials.", <<>>))
    ELSE
    LET all_params == AllParams(trials)
        unknown == FirstUnknown(params, all_params)
    IN
    IF unknown # <<>>
    THEN Figure(<<>>, SliceLayout, <<>>, <<>>,
                Warning("Parameter {} does not exist in your study.", unknown[1]))
    ELSE
    LET sorted_params == SelectedParams(params, all_params) IN
    IF Len(sorted_params) = 1
    THEN Figure(<<_generate_slice_subplot(trials, sorted_params[1])>>, SliceLayout,
                <<sorted_params[1]>>, <<"Objective Value">>, NoWarning)
    ELSE IF Len(sorted_params) = 0
    \* make_subplots(rows=1, cols=0): plotly rejects a grid without columns
    THEN Raise("ValueError",
               [fmt |-> "The 'cols' argument to make_subplots must be an int greater than 0.",
                arg |-> 0], TRUE)
    ELSE Figure(SlicePanels(trials, sorted_params), SliceLayout,
                sorted_params, SliceYAxes(sorted_params), NoWarning)

(***************************************************************************)
(* The display wrappers: check, build, show.                               *)
(***************************************************************************)
\* figure.show() runs only when the check passed and the build returned a figure.
Display(check, built) ==
    IF check.kind = "raise" THEN check
    ELSE IF built.kind = "figure" THEN [built EXCEPT !.shown = TRUE]
    ELSE built

plot_intermediate_values(avail, version, s) ==
    Display(_check_plotly_availability(avail, version), _get_intermediate_plot(avail, s))

plot_optimization_history(avail, version, s) ==
    Display(_check_plotly_availability(avail, version),
            _get_optimization_history_plot(avail, s))

plot_slice(avail, version, s, params) ==
    Display(_check_plotly_availability(avail, version), _get_slice_plot(avail, s, params))

(***************************************************************************)
(* The studies, environments and requests the operations are applied to.   *)
(***************************************************************************)
\* Optimization history: state and value vary freely.
HistoryBodies ==
    TrialBodies({"COMPLETE", "RUNNING", "FAIL"}, FloatValues \cup {NoneValue},
                {EmptyDict}, {TRUE}, {<<>>})

\* The study of the documented example: four COMPLETE trials with values 5, 3, 8, 1.
ExampleValues == <<5, 3, 8, 1>>
ExampleTrials ==
    Numbered([i \in 1..Len(ExampleValues) |->
                 [state |-> "COMPLETE", value |-> Float(ExampleValues[i]),
                  params |-> EmptyDict, has_intermediate_values |-> TRUE,
                  intermediate_values |-> <<>>]])

\* Slice: a COMPLETE trial has a value, any other trial has none; params vary freely.
SliceBodies ==
    TrialBodies({"COMPLETE"}, {Float(n) : n \in FewValues}, Dicts(ParamNames, FewValues),
                {TRUE}, {<<>>})
    \cup TrialBodies({"FAIL"}, {NoneValue}, Dicts(ParamNames, FewValues), {TRUE}, {<<>>})

\* The params argument: lists of known and unknown names, with repetitions.
RequestedLists == UNION {[1..n -> ParamNames \cup {OtherName}] : n \in 0..MaxRequested}

\* Intermediate values: the state varies, and a trial has the attribute or not.
IntermediateBodies ==
    TrialBodies(TrialState, {NoneValue}, {EmptyDict}, {TRUE}, IntermediateDicts)
    \cup TrialBodies(TrialState, {NoneValue}, {EmptyDict}, {FALSE}, {<<>>})

\* All operations: trials of every state, with and without a value.
AnyBodies ==
    TrialBodies(TrialState, {Float(1), NoneValue}, {EmptyDict}, {TRUE}, {<<>>})

\* plotly.__version__ as (major, minor, patch); NoVersion when plotly is not installed.
NoVersion == <<0, 0, 0>>
Versions == {<<3, 10, 0>>, <<4, 0, 0>>, <<4, 1, 2>>}
Environments ==
    {[available |-> FALSE, version |-> NoVersion]}
    \cup [available : {TRUE}, version : Versions]

NoCall == [op |-> "none", params |-> <<>>]

\* A study of at most maxLen trials, an environment, and no call made yet.
InitWith(directions, bodies, maxLen, environments) ==
    /\ \E d \in directions : \E n \in 0..maxLen : \E f \in [1..n -> bodies] :
          study = [direction |-> d, trials |-> Numbered(f)]
    /\ \E e \in environments : available = e.available /\ plotly_version = e.version
    /\ call = NoCall
    /\ result = NoResult

(***************************************************************************)
(* The operations: one action per function of the module.  A call is made  *)
(* when no call is in progress; Return ends it and drops what it produced. *)
(***************************************************************************)
Idle == call = NoCall

Return ==
    /\ ~Idle
    /\ call' = NoCall
    /\ result' = NoResult
    /\ UNCHANGED <<study, available, plotly_version>>

Call_get_intermediate_plot ==
    /\ Idle
    /\ call' = [op |-> "_get_intermediate_plot", params |-> <<>>]
    /\ result' = _get_intermediate_plot(available, study)
    /\ UNCHANGED <<study, available, plotly_version>>

Call_plot_intermediate_values ==
    /\ Idle
    /\ call' = [op |-> "plot_intermediate_values", params |-> <<>>]
    /\ result' = plot_intermediate_values(available, plotly_version, study)
    /\ UNCHANGED <<study, available, plotly_version>>

Call_get_optimization_history_plot ==
    /\ Idle
    /\ call' = [op |-> "_get_optimization_history_plot", params |-> <<>>]
    /\ result' = _get_optimization_history_plot(available, study)
    /\ UNCHANGED <<study, available, plotly_version>>

Call_plot_optimization_history ==
    /\ Idle
    /\ call' = [op |-> "plot_optimization_history", params |-> <<>>]
    /\ result' = plot_optimization_history(available, plotly_version, study)
    /\ UNCHANGED <<study, available, plotly_version>>

Call_get_slice_plot ==
    \E params \in RequestedLists :
        /\ Idle
        /\ call' = [op |-> "_get_slice_plot", params |-> params]
        /\ result' = _get_slice_plot(available, study, params)
        /\ UNCHANGED <<study, available, plotly_version>>

Call_plot_slice ==
    \E params \in RequestedLists :
        /\ Idle
        /\ call' = [op |-> "plot_slice", params |-> params]
        /\ result' = plot_slice(available, plotly_version, study, params)
        /\ UNCHANGED <<study, available, plotly_version>>

(***************************************************************************)
(* Specifications.                                                         *)
(***************************************************************************)
Supported == {[available |-> TRUE, version |-> MinVersion]}

\* Every operation, in every environment.
Init == InitWith(StudyDirection, AnyBodies, MaxFewTrials, Environments)
Next ==
    \/ Call_get_intermediate_plot
    \/ Call_plot_intermediate_values
    \/ Call_get_optimization_history_plot
    \/ Call_plot_optimization_history
    \/ Call_get_slice_plot
    \/ Call_plot_slice
    \/ Return
Spec == Init /\ [][Next]_vars

\* The optimization-history build.
InitHistory ==
    \/ InitWith(StudyDirection, HistoryBodies, MaxTrials, Supported)
    \/ /\ study \in [direction : StudyDirection, trials : {ExampleTrials}]
       /\ available = TRUE
       /\ plotly_version = MinVersion
       /\ call = NoCall
       /\ result = NoResult
NextHistory ==
    \/ Call_get_optimization_history_plot
    \/ Return
SpecHistory == InitHistory /\ [][NextHistory]_vars

\* The slice build.
InitSlice == InitWith({"MINIMIZE"}, SliceBodies, MaxFewTrials, Supported)
NextSlice ==
    \/ Call_get_slice_plot
    \/ Return
SpecSlice == InitSlice /\ [][NextSlice]_vars

\* The intermediate-values build.
InitIntermediate == InitWith({"MINIMIZE"}, IntermediateBodies, MaxFewTrials, Supported)
NextIntermediate ==
    \/ Call_get_intermediate_plot
    \/ Return
SpecIntermediate == InitIntermediate /\ [][NextIntermediate]_vars

(***************************************************************************)
(* What the claims speak of, stated on the study itself.                   *)
(***************************************************************************)
NTrials == Len(study.trials)

\* The positions in study.trials of the COMPLETE trials, and the k-th of them.
CompletePositions == {i \in 1..NTrials : study.trials[i].state = "COMPLETE"}
NComplete == Cardinality(CompletePositions)
KthComplete(k) ==
    CHOOSE i \in CompletePositions : Cardinality({j \in CompletePositions : j <= i}) = k

\* The COMPLETE trials whose value is not a number.
BadPositions == {i \in CompletePositions : study.trials[i].value.type # "float"}

\* a <= b on numbers with the two infinities
NumLeq(a, b) == \/ a.inf < b.inf
                \/ a.inf = b.inf /\ (a.inf # 0 \/ a.v <= b.v)
Smaller(a, b) == IF NumLeq(a, b) THEN a ELSE b
Larger(a, b) == IF NumLeq(a, b) THEN b ELSE a

HistoryBuilt == call.op = "_get_optimization_history_plot" /\ available

\* C1: when every COMPLETE trial has a numeric value (and there is one), the
\* optimization-history build returns a best-so-far series with one entry per
\* COMPLETE trial, in trial order, where best[k] is the smaller (MINIMIZE) or larger
\* (MAXIMIZE) of best[k-1] and the k-th value, best[0] being +infinity or -infinity;
\* values [5, 3, 8, 1] give [5, 3, 3, 1] and [5, 5, 8, 8].
C1_BestSoFarIsRunningFold ==
    (HistoryBuilt /\ NComplete > 0 /\ BadPositions = {}) =>
        /\ result.kind = "figure"
        /\ Len(result.data) = 2
        /\ LET best == result.data[2].y
               val(k) == study.trials[KthComplete(k)].value
               prev(k) == IF k > 1 THEN best[k - 1]
                          ELSE IF study.direction = "MINIMIZE" THEN PosInf ELSE NegInf
           IN /\ DOMAIN best = 1..NComplete
              /\ \A k \in 1..NComplete :
                    best[k] = IF study.direction = "MINIMIZE"
                              THEN Smaller(prev(k), val(k))
                              ELSE Larger(prev(k), val(k))
              /\ study.trials = ExampleTrials =>
                    best = IF study.direction = "MINIMIZE"
                           THEN <<Float(5), Float(3), Float(3), Float(1)>>
                           ELSE <<Float(5), Float(5), Float(8), Float(8)>>

\* The documented example has been built for MINIMIZE.
C1_Witness ==
    /\ HistoryBuilt
    /\ study.trials = ExampleTrials
    /\ study.direction = "MINIMIZE"
    /\ result.kind = "figure"
    /\ result.data[2].y[4] = Float(1)

\* C2: a non-empty optimization-history figure has a best-so-far series that never
\* rises (MINIMIZE) or never falls (MAXIMIZE), as long as the number of COMPLETE
\* trials, the raw value series and the x-axis of trial numbers.
C2_BestSoFarMonotoneSameLength ==
    (HistoryBuilt /\ result.kind = "figure" /\ result.data # <<>>) =>
        LET raw == result.data[1]
            best == result.data[2]
        IN /\ Len(best.y) = NComplete
           /\ Len(raw.y) = NComplete
           /\ Len(raw.x) = NComplete
           /\ best.x = raw.x
           /\ \A k \in 1..NComplete : raw.x[k] = study.trials[KthComplete(k)].number
           /\ \A k \in 2..NComplete :
                 IF study.direction = "MINIMIZE"
                 THEN NumLeq(best.y[k], best.y[k - 1])
                 ELSE NumLeq(best.y[k - 1], best.y[k])

\* A figure over three COMPLETE trials whose raw values go up and then down.
C2_Witness ==
    /\ HistoryBuilt
    /\ result.kind = "figure"
    /\ NComplete = 3
    /\ NTrials = 3
    /\ study.trials[1].value = Float(1)
    /\ study.trials[2].value = Float(2)
    /\ study.trials[3].value = Float(1)

\* C3: the optimization-history build raises ValueError exactly when some COMPLETE
\* trial has a value that is no number; the error names the number of the first such
\* trial and nothing else is raised; trials in other states never matter.
C3_ValueErrorIffBadCompleteTrial ==
    HistoryBuilt =>
        /\ result.kind \in {"figure", "raise"}
        /\ result.kind = "raise" <=> BadPositions # {}
        /\ result.kind = "raise" =>
              /\ result.exc = "ValueError"
              /\ \E i \in BadPositions :
                    /\ \A j \in BadPositions : i <= j
                    /\ result.msg.arg = study.trials[i].number

\* The error names the second trial: the first has no value but is not COMPLETE, the
\* third is COMPLETE without a value too.
C3_Witness ==
    /\ HistoryBuilt
    /\ NTrials = 3
    /\ study.trials[1].state = "FAIL" /\ study.trials[1].value = NoneValue
    /\ study.trials[2].state = "COMPLETE" /\ study.trials[2].value = NoneValue
    /\ study.trials[3].state = "COMPLETE" /\ study.trials[3].value = NoneValue
    /\ result.kind = "raise"
    /\ result.msg.arg = 1

(***************************************************************************)
(* Availability (C4) and empty studies (C5), over every operation.         *)
(***************************************************************************)
BackendUnusable == ~available \/ StrictVersionLess(plotly_version, MinVersion)

DisplayOps == {"plot_intermediate_values", "plot_optimization_history", "plot_slice"}
BuildOps == {"_get_intermediate_plot", "_get_optimization_history_plot", "_get_slice_plot"}

FailedBeforeProcessing ==
    /\ result.kind = "raise"
    /\ result.exc = "ImportError"
    /\ result.msg.fmt # ""
    /\ ~result.read
    /\ ~result.shown

\* C4 as stated: with the backend missing or too old, every build operation and every
\* display operation fails with ImportError before any trial is read.
C4_Original_EveryOperationFails ==
    (call.op \in DisplayOps \cup BuildOps /\ BackendUnusable) => FailedBeforeProcessing

\* C4 as amended: with the backend missing or too old, every display operation fails
\* with ImportError carrying remediation text, before any trial is read and without
\* showing anything.
C4_DisplayFailsBeforeProcessing ==
    (call.op \in DisplayOps /\ BackendUnusable) => FailedBeforeProcessing

\* plot_slice over a study with a COMPLETE trial has failed on a backend that is
\* installed but too old.
C4_Witness ==
    /\ call.op = "plot_slice"
    /\ available
    /\ StrictVersionLess(plotly_version, MinVersion)
    /\ \E i \in 1..NTrials : study.trials[i].state = "COMPLETE"
    /\ FailedBeforeProcessing

NoTrialIn(states) == \A i \in 1..NTrials : study.trials[i].state \notin states

EmptyShell(layout) ==
    /\ result.kind = "figure"
    /\ result.data = <<>>
    /\ result.layout = layout
    /\ result.layout.title # ""

\* C5: when no trial passes a builder's state filter (PRUNED, COMPLETE, RUNNING for
\* intermediate values, COMPLETE for optimization history and slice), and so for a
\* study without trials, the builder returns a chart with no series and with its layout.
C5_NoMatchingTrialsGivesEmptyShell ==
    /\ (call.op = "_get_intermediate_plot" /\ available
            /\ NoTrialIn({"PRUNED", "COMPLETE", "RUNNING"}))
        => EmptyShell(IntermediateLayout)
    /\ (call.op = "_get_optimization_history_plot" /\ available /\ NoTrialIn({"COMPLETE"}))
        => EmptyShell(HistoryLayout)
    /\ (call.op = "_get_slice_plot" /\ available /\ NoTrialIn({"COMPLETE"}))
        => EmptyShell(SliceLayout)

\* The slice build has returned the empty shell for a study whose trials are a
\* RUNNING and a FAIL one.
C5_Witness ==
    /\ call.op = "_get_slice_plot"
    /\ available
    /\ NTrials = 2
    /\ study.trials[1].state = "RUNNING"
    /\ study.trials[2].state = "FAIL"
    /\ EmptyShell(SliceLayout)

(***************************************************************************)
(* The slice build (C6, C7, C10).                                          *)
(***************************************************************************)
SliceBuilt == call.op = "_get_slice_plot" /\ available

\* The parameter names that occur in some COMPLETE trial.
KnownNames == UNION {DOMAIN study.trials[i].params : i \in CompletePositions}
RequestedNames == {call.params[i] : i \in 1..Len(call.params)}

\* a comes before b in lexicographic order: they agree before some position k, where
\* a has ended and b has not, or a has the smaller character.
LexBefore(a, b) ==
    \E k \in 1..(Len(b)) :
        /\ \A j \in 1..(k - 1) : j <= Len(a) /\ a[j] = b[j]
        /\ k > Len(a) \/ a[k] < b[k]

\* C6: a slice build with a non-empty params list holding a name that no COMPLETE
\* trial sets returns the empty shell, without raising and without any panel,
\* wherever the unknown name stands in the list.
C6_UnknownNameGivesEmptyShell ==
    (SliceBuilt /\ call.params # <<>> /\ ~(RequestedNames \subseteq KnownNames)) =>
        /\ EmptyShell(SliceLayout)
        /\ result.xaxes = <<>>
        /\ result.yaxes = <<>>

\* The unknown name comes second, after a name that a COMPLETE trial sets.
C6_Witness ==
    /\ SliceBuilt
    /\ Len(call.params) = 2
    /\ call.params[1] \in KnownNames
    /\ call.params[2] \notin KnownNames
    /\ EmptyShell(SliceLayout)

\* The names the build is to show.
SelectedNames == IF call.params = <<>> THEN KnownNames ELSE RequestedNames

\* C7: with a COMPLETE trial and only known names requested, the slice build shows
\* all known names (params empty) or the requested names without repetitions, in
\* lexicographic order: one panel per name, in that order, its x-axis labelled with
\* the name; only the first panel shows the colour scale and only the first y-axis is
\* labelled 'Objective Value'.
C7_OnePanelPerSelectedNameInOrder ==
    (SliceBuilt /\ NComplete > 0 /\ RequestedNames \subseteq KnownNames
        /\ SelectedNames # {}) =>
        /\ result.kind = "figure"
        /\ Len(result.data) = Cardinality(SelectedNames)
        /\ Len(result.xaxes) = Cardinality(SelectedNames)
        /\ Len(result.yaxes) = Cardinality(SelectedNames)
        /\ {result.xaxes[i] : i \in 1..Len(result.xaxes)} = SelectedNames
        /\ \A i \in 1..Len(result.xaxes) : \A j \in 1..Len(result.xaxes) :
              i < j => LexBefore(result.xaxes[i], result.xaxes[j])
        /\ \A i \in 1..Len(result.data) :
              /\ result.data[i].col = i
              /\ result.data[i].showscale = (i = 1)
              /\ result.yaxes[i] = IF i = 1 THEN "Objective Value" ELSE ""

\* Two known names have been requested, the later one in the order first: two panels.
C7_Witness ==
    /\ SliceBuilt
    /\ call.params = <<<<2>>, <<1, 2>>>>
    /\ result.kind = "figure"
    /\ Len(result.data) = 2
    /\ result.xaxes = <<<<1, 2>>, <<2>>>>

\* The COMPLETE trials that set parameter p, by position.
SettersOf(p) == {i \in CompletePositions : p \in DOMAIN study.trials[i].params}

\* C10: the series of a panel holds exactly the COMPLETE trials that set the panel's
\* parameter, in trial order; x, y and the marker colours have the same length, and
\* their k-th entries are the parameter value, the objective value and the number
\* of the same trial.
C10_PanelHoldsTheTrialsThatSetItsParameter ==
    (SliceBuilt /\ result.kind = "figure") =>
        \A i \in 1..Len(result.data) :
            LET p == result.xaxes[i]
                d == result.data[i]
                n == Cardinality(SettersOf(p))
                pos(k) == CHOOSE t \in SettersOf(p) :
                              Cardinality({u \in SettersOf(p) : u <= t}) = k
            IN /\ Len(d.x) = n /\ Len(d.y) = n /\ Len(d.color) = n
               /\ \A k \in 1..n :
                     /\ d.color[k] = study.trials[pos(k)].number
                     /\ d.x[k] = study.trials[pos(k)].params[p]
                     /\ d.y[k] = study.trials[pos(k)].value

\* Two panels over two COMPLETE trials: the first trial sets only the second
\* parameter, so that it is missing from the first panel and present in the second.
C10_Witness ==
    /\ SliceBuilt
    /\ result.kind = "figure"
    /\ Len(result.data) = 2
    /\ NTrials = 2
    /\ NComplete = 2
    /\ DOMAIN study.trials[1].params = {<<2>>}
    /\ DOMAIN study.trials[2].params = {<<1, 2>>, <<2>>}
    /\ result.data[1].color = <<1>>
    /\ result.data[2].color = <<0, 1>>

(***************************************************************************)
(* The intermediate-values build (C8, C9).                                 *)
(***************************************************************************)
IntermediateBuilt == call.op = "_get_intermediate_plot" /\ available

TargetPositions ==
    {i \in 1..NTrials : study.trials[i].state \in {"PRUNED", "COMPLETE", "RUNNING"}}
Exposing == {i \in TargetPositions : study.trials[i].has_intermediate_values}

\* C8: when no PRUNED, COMPLETE or RUNNING trial exposes intermediate values, the
\* intermediate-values build warns and returns the empty shell; it does not raise.
C8_NoIntermediateValuesGivesEmptyShell ==
    (IntermediateBuilt /\ Exposing = {}) =>
        /\ EmptyShell(IntermediateLayout)
        /\ result.warning # NoWarning

\* Two trials pass the filter and neither has the attribute.
C8_Witness ==
    /\ IntermediateBuilt
    /\ Cardinality(TargetPositions) = 2
    /\ Exposing = {}
    /\ EmptyShell(IntermediateLayout)
    /\ result.warning.fmt
          = "You need to set up the pruning feature to utilize plot_intermediate_values()"

\* C9: when some PRUNED, COMPLETE or RUNNING trial exposes intermediate values, the
\* build does not raise and returns one series per filtered trial, in trial order,
\* labelled by the trial's number, with the trial's steps as x and its values as y;
\* also when only some of the filtered trials expose intermediate values.
C9_OneSeriesPerFilteredTrial ==
    (IntermediateBuilt /\ Exposing # {}) =>
        /\ result.kind = "figure"
        /\ Len(result.data) = Cardinality(TargetPositions)
        /\ \A k \in 1..Len(result.data) :
              LET t == study.trials[CHOOSE i \in TargetPositions :
                                        Cardinality({j \in TargetPositions : j <= i}) = k]
              IN /\ result.data[k].name = [fmt |-> "Trial{}", arg |-> t.number]
                 /\ result.data[k].x = [s \in 1..Len(t.intermediate_values)
                                            |-> t.intermediate_values[s][1]]
                 /\ result.data[k].y = [s \in 1..Len(t.intermediate_values)
                                            |-> t.intermediate_values[s][2]]

====
